---------------------------- MODULE Spec2Model ----------------------------
(***************************************************************************)
(* A model of touch_event: per-device decoder threads (read.rs) that keep  *)
(* a TouchGroup (touch_group.rs), classify it (analyze.rs) and publish the *)
(* result into an atomic status cell plus a capacity-one channel, and the  *)
(* TouchListener (lib.rs) that waits on the channel and reads the cells.   *)
(***************************************************************************)
EXTENDS Integers, Sequences, FiniteSets, TLC

(***************************************************************************)
(* Values.  Option<i32> is a tuple: <<>> is None and <<v>> is Some(v).     *)
(***************************************************************************)
NoneOpt == <<>>
Some(v) == <<v>>
IsSome(o) == o /= NoneOpt
Unwrap(o) == o[1]

\* enum TouchStatus
TouchStatus == {"Slide", "Click", "None"}

\* HashMap helpers: a map is a function; insert overwrites, remove drops.
EmptyMap == <<>>
MapInsert(m, k, v) == [x \in (DOMAIN m) \cup {k} |-> IF x = k THEN v ELSE m[x]]
MapRemove(m, k) == [x \in (DOMAIN m) \ {k} |-> m[x]]

Abs(n) == IF n < 0 THEN -n ELSE n
SetMax(S) == CHOOSE m \in S : \A n \in S : n <= m

(***************************************************************************)
(* touch_group.rs                                                          *)
(***************************************************************************)
\* TouchPos::new
TouchPos_new == [cur_pos |-> <<NoneOpt, NoneOpt>>, prev_pos |-> <<NoneOpt, NoneOpt>>]

\* x written in place: the previous sample is not kept
TouchPos_x_inplace(pos, pos_x) ==
    [cur_pos |-> <<Some(pos_x), pos.cur_pos[2]>>, prev_pos |-> pos.prev_pos]

\* TouchPos::x
TouchPos_x(pos, pos_x) ==
    [cur_pos |-> <<Some(pos_x), pos.cur_pos[2]>>, prev_pos |-> pos.cur_pos]

\* y shifts only its own component into prev_pos
TouchPos_y_own_axis(pos, pos_y) ==
    [cur_pos |-> <<pos.cur_pos[1], Some(pos_y)>>,
     prev_pos |-> <<pos.prev_pos[1], pos.cur_pos[2]>>]

\* TouchPos::y
TouchPos_y(pos, pos_y) ==
    [cur_pos |-> <<pos.cur_pos[1], Some(pos_y)>>, prev_pos |-> pos.cur_pos]

\* TouchGroup::new
TouchGroup_new == [id_slot |-> EmptyMap, slot_pos |-> EmptyMap]

\* remove_id forgetting the slot's TouchPos
remove_id_keep_pos(g) ==
    IF DOMAIN g.id_slot = {} THEN g
    ELSE [g EXCEPT !.id_slot = MapRemove(@, SetMax(DOMAIN g.id_slot))]

SetMin(S) == CHOOSE m \in S : \A n \in S : m <= n

\* remove_id taking the smallest id (keys().min()) instead of the largest
remove_id_min(g) ==
    IF DOMAIN g.id_slot = {} THEN g
    ELSE LET id == SetMin(DOMAIN g.id_slot)
             slot == g.id_slot[id]
         IN  [id_slot |-> MapRemove(g.id_slot, id),
              slot_pos |-> MapRemove(g.slot_pos, slot)]

\* TouchGroup::remove_id
remove_id(g) ==
    IF DOMAIN g.id_slot = {} THEN g
    ELSE LET id == SetMax(DOMAIN g.id_slot)
             slot == g.id_slot[id]
         IN  [id_slot |-> MapRemove(g.id_slot, id),
              slot_pos |-> MapRemove(g.slot_pos, slot)]

(***************************************************************************)
(* analyze.rs                                                              *)
(***************************************************************************)
\* f64::round of f64::sqrt of a non-negative integer n: the r with
\* (r - 1/2)^2 <= n < (r + 1/2)^2 (round is half away from zero; for an
\* integer n the square root is never exactly r + 1/2).
RoundSqrt(n) ==
    IF n = 0 THEN 0
    ELSE CHOOSE r \in 1..n : (2*r - 1) * (2*r - 1) <= 4*n /\ 4*n < (2*r + 1) * (2*r + 1)

\* on_slide comparing with > instead of >=
on_slide_strict(pos, min_pix) ==
    IF ~(IsSome(pos.cur_pos[1]) /\ IsSome(pos.cur_pos[2])) THEN FALSE
    ELSE IF ~(IsSome(pos.prev_pos[1]) /\ IsSome(pos.prev_pos[2])) THEN FALSE
    ELSE LET len_x == Abs(Unwrap(pos.cur_pos[1]) - Unwrap(pos.prev_pos[1]))
             len_y == Abs(Unwrap(pos.cur_pos[2]) - Unwrap(pos.prev_pos[2]))
             len == RoundSqrt(len_x * len_x + len_y * len_y)
         IN  len > min_pix

\* on_slide
on_slide(pos, min_pix) ==
    IF ~(IsSome(pos.cur_pos[1]) /\ IsSome(pos.cur_pos[2])) THEN FALSE
    ELSE IF ~(IsSome(pos.prev_pos[1]) /\ IsSome(pos.prev_pos[2])) THEN FALSE
    ELSE LET len_x == Abs(Unwrap(pos.cur_pos[1]) - Unwrap(pos.prev_pos[1]))
             len_y == Abs(Unwrap(pos.cur_pos[2]) - Unwrap(pos.prev_pos[2]))
             len == RoundSqrt(len_x * len_x + len_y * len_y)
         IN  len >= min_pix

\* analyze without its is_empty branch: a group with no slot is Click
new_status_no_empty(g, min_pix) ==
    IF \E s \in DOMAIN g.slot_pos : on_slide(g.slot_pos[s], min_pix) THEN "Slide"
    ELSE "Click"

\* analyze, lines 16-24: the new status of a TouchGroup under a threshold
new_status_of(g, min_pix) ==
    IF \E s \in DOMAIN g.slot_pos : on_slide(g.slot_pos[s], min_pix) THEN "Slide"
    ELSE IF DOMAIN g.slot_pos = {} THEN "None"
    ELSE "Click"


(***************************************************************************)
(* State                                                                   *)
(***************************************************************************)
VARIABLES
    status,     \* status_map: device id -> the device's TouchStatus cell
    chan,       \* number of () messages buffered in the sync_channel
    min_pixel,  \* the shared AtomicUsize threshold
    dec,        \* device id -> the locals of its daemon_thread
    lpc,        \* what the thread that owns the TouchListener is doing
    wres,       \* what the last wait / wait_timeout call returned
    wcall,      \* which call returned wres
    werr,       \* the channel error behind wres, before map_err
    scan,       \* the locals of a running status() call
    sres,       \* what the last status() call returned
    tracker,    \* a free-standing TouchPos
    h           \* history: observations the properties are stated over

vars == <<status, chan, min_pixel, dec, lpc, wres, wcall, werr, scan, sres, tracker, h>>

Devs == DOMAIN status

\* mpsc::sync_channel(1)
ChanCap == 1
\* the release sentinel of ABS_MT_TRACKING_ID
ReleaseId == -1

(***************************************************************************)
(* read.rs: the locals of one daemon_thread.                               *)
(*   group, target, cache: the variables of lines 29-31                    *)
(*   ev:   the event whose handler is running                              *)
(*   pc:   "fetch"   blocked in fetch_events (between two handlers)        *)
(*         "load_mp" about to load min_pixel for a call of analyze         *)
(*         "analyze" inside analyze, before the status load                *)
(*         "notify"  inside analyze, after the store, before try_send      *)
(*         "dead"    the thread has ended, its SyncSender is dropped       *)
(*   site: the call of analyze that is running ("release": line 98,        *)
(*         "pre": line 108, "loop": line 111)                              *)
(*   idx:  the index into cache of the for loop of line 110                *)
(*   mp:   the min_pixel value loaded for the running call of analyze      *)
(***************************************************************************)
SynEvent == [kind |-> "SYN", value |-> 0]

daemon_new ==
    [group |-> TouchGroup_new, target |-> <<NoneOpt, NoneOpt>>, cache |-> <<>>,
     ev |-> SynEvent, pc |-> "fetch", site |-> "none", idx |-> 0, mp |-> 0]

\* lines 36-75, after update_group has returned: the rest of the handler
Returned(L) ==
    LET t == IF L.ev.kind = "TRACKING_ID" THEN <<Some(L.ev.value), L.target[2]>>
             ELSE IF L.ev.kind = "SLOT" THEN <<L.target[1], Some(L.ev.value)>>
             ELSE L.target
    IN  [L EXCEPT !.target = t, !.ev = SynEvent, !.pc = "fetch", !.site = "none",
                  !.idx = 0, !.mp = 0]

\* the TouchPos is inserted outside the Vacant branch: also for a bound id
bind_always_pos(g, id, slot) ==
    [id_slot |-> IF id \in DOMAIN g.id_slot THEN g.id_slot
                 ELSE MapInsert(g.id_slot, id, slot),
     slot_pos |-> MapInsert(g.slot_pos, slot, TouchPos_new)]

\* update_group, lines 102-105: bind the id to the slot unless it is bound
bind(g, id, slot) ==
    IF id \in DOMAIN g.id_slot THEN g
    ELSE [id_slot |-> MapInsert(g.id_slot, id, slot),
          slot_pos |-> MapInsert(g.slot_pos, slot, TouchPos_new)]

\* update_group, line 110: the head of the for loop, about to take cache[i]
LoopHead(L, i) ==
    IF i <= Len(L.cache)
    THEN [L EXCEPT !.idx = i, !.site = "loop", !.pc = "load_mp"]
    ELSE Returned([L EXCEPT !.cache = <<>>, !.target = <<NoneOpt, NoneOpt>>])

\* update_group without the call of analyze of line 108
update_group_no_pre(L) ==
    IF L.cache = <<>> /\ L.target[1] = NoneOpt THEN Returned(L)
    ELSE IF L.target[1] = Some(ReleaseId)
         THEN [L EXCEPT !.group = remove_id(L.group),
                        !.target = <<NoneOpt, L.target[2]>>,
                        !.site = "release", !.pc = "load_mp"]
    ELSE LoopHead([L EXCEPT !.group = IF IsSome(L.target[1])
                                      THEN bind(L.group, Unwrap(L.target[1]), L.target[2])
                                      ELSE L.group],
                  1)

\* update_group, lines 88-108: from the entry to the first call of analyze
update_group(L) ==
    IF L.cache = <<>> /\ L.target[1] = NoneOpt THEN Returned(L)
    ELSE IF L.target[1] = Some(ReleaseId)
         THEN [L EXCEPT !.group = remove_id(L.group),
                        !.target = <<NoneOpt, L.target[2]>>,
                        !.site = "release", !.pc = "load_mp"]
    ELSE [L EXCEPT !.group = IF IsSome(L.target[1])
                             THEN bind(L.group, Unwrap(L.target[1]), L.target[2])
                             ELSE L.group,
                   !.site = "pre", !.pc = "load_mp"]

\* update_group, lines 118-122: one buffered write applied to a TouchPos
ApplyAxis(pos, e) ==
    IF e.axis = "POSITION_X" THEN TouchPos_x(pos, e.value)
    ELSE IF e.axis = "POSITION_Y" THEN TouchPos_y(pos, e.value)
    ELSE pos

\* update_group, lines 113-123: the loop body after its call of analyze
LoopBody(L) ==
    IF L.target[2] \notin DOMAIN L.group.slot_pos
    THEN Returned([L EXCEPT !.target = <<NoneOpt, NoneOpt>>])
    ELSE LoopHead([L EXCEPT !.group.slot_pos[L.target[2]] =
                                ApplyAxis(@, L.cache[L.idx])],
                  L.idx + 1)

\* update_group: where it goes on when a call of analyze has returned
AfterAnalyze(L) ==
    IF L.site = "release" THEN Returned(L)
    ELSE IF L.site = "pre" THEN LoopHead(L, 1)
    ELSE LoopBody(L)

\* daemon_thread, lines 36-75: the handler of one event, up to the first
\* call of analyze or to its end
HandleEvent(L, e) ==
    LET L1 == [L EXCEPT !.ev = e]
    IN  IF e.kind \in {"TRACKING_ID", "SLOT", "SYN"} THEN update_group(L1)
        ELSE IF e.kind \in {"POSITION_X", "POSITION_Y"}
             THEN [L EXCEPT !.cache = Append(@, [axis |-> e.kind, value |-> e.value])]
        ELSE L


\* several events handled one after the other
RECURSIVE HandleAll(_, _)
HandleAll(L, r) ==
    IF r = <<>> THEN L ELSE HandleAll(HandleEvent(L, Head(r)), Tail(r))

\* the handlers of all events of r but the last touch nothing but the
\* thread's own locals (update_group returns before it calls analyze)
PrefixLocal(L, r) ==
    \A k \in 1..(Len(r) - 1) : HandleAll(L, SubSeq(r, 1, k)).pc = "fetch"

(***************************************************************************)
(* analyze.rs, lines 26-29, and the channel                                *)
(***************************************************************************)
\* the status is stored and notified whether it changed or not
always_differs(old, new) == TRUE

\* analyze.rs, line 26: status.load(Ordering::Acquire) != new_status
status_differs(old, new) == old /= new

\* a rendezvous channel (sync_channel(0)) with no receiver waiting: nothing is
\* ever buffered
try_send_rendezvous(c) == c

\* SyncSender::try_send on the bounded channel: the message is buffered if
\* there is room and dropped (Err(Full), ignored by analyze) otherwise
try_send(c) == IF c < ChanCap THEN c + 1 ELSE c

\* the blocking SyncSender::send can go on only when there is room
send_ready(c) == c < ChanCap

\* try_send returns at once, whatever the channel holds
try_send_ready(c) == TRUE

AnyAlive == \E d \in Devs : dec[d].pc /= "dead"

\* Receiver::try_recv taken for recv: an empty channel is an error at once
recv_nonblocking(c, senders) == IF c > 0 THEN "Ok" ELSE "Disconnected"

\* Receiver::recv: a buffered message first; Err(RecvError) once the buffer
\* is empty and every SyncSender is dropped; blocked otherwise
recv(c, senders) ==
    IF c > 0 THEN "Ok" ELSE IF ~senders THEN "Disconnected" ELSE "Blocked"

\* Receiver::recv_timeout: as recv, and Err(Timeout) where recv would block
recv_timeout(c, senders) ==
    IF c > 0 THEN "Ok" ELSE IF ~senders THEN "Disconnected" ELSE "Timeout"

\* lib.rs, line 147: wait's map_err
wait_err(e) == "Monitor threads had paniced"

\* lib.rs, line 159: wait_timeout's map_err
wait_timeout_err(e) == "Monitor threads had paniced"


(***************************************************************************)
(* Bounds and input sets                                                   *)
(***************************************************************************)
\* the threshold the listeners of this model are constructed with
InitMinPixel == 5
\* history counters saturate here
MaxCount == 2
\* a coordinate far enough from 0 to slide under InitMinPixel
FarCoord == 9
\* a threshold under which a move from 0 to FarCoord does not slide
HighThreshold == 12

Min(a, b) == IF a < b THEN a ELSE b

Ev(k, v) == [kind |-> k, value |-> v]

(***************************************************************************)
(* What is recorded of a flush (a call of update_group) when h.obs is set: *)
(*   h.flush: the event whose handler called update_group, whether it took *)
(*            the release branch, whether the target slot had a TouchPos   *)
(*            once the bind was done, the buffer it was called with, and   *)
(*            how it ended;                                                *)
(*   h.log:   every return of analyze (RunMark) and every buffered write   *)
(*            applied to a TouchPos, in the order they happened.           *)
(***************************************************************************)
NoFlush ==
    [ev |-> "none", release |-> FALSE, tracked |-> FALSE, cache |-> <<>>,
     outcome |-> "none"]

RunMark == [axis |-> "ANALYZE", value |-> 0]

\* the record of the flush that the handler of e starts from the locals L
FlushStart(L, e) ==
    LET L1 == HandleEvent(L, e)
    IN  IF e.kind \notin {"TRACKING_ID", "SLOT", "SYN"} THEN NoFlush
        ELSE IF L1.pc = "fetch" THEN [NoFlush EXCEPT !.ev = e.kind, !.outcome = "noop"]
        ELSE [ev |-> e.kind, release |-> (L1.site = "release"),
              tracked |-> (L1.target[2] \in DOMAIN L1.group.slot_pos),
              cache |-> L.cache, outcome |-> "running"]

\* update_group, lines 113-122: the write applied once the call of analyze
\* made with the locals L has returned
Applied(L) ==
    IF L.site = "loop" /\ L.target[2] \in DOMAIN L.group.slot_pos
    THEN <<L.cache[L.idx]>> ELSE <<>>

\* update_group: how the flush goes on once that call has returned
Outcome(L) ==
    IF AfterAnalyze(L).pc /= "fetch" THEN "running"
    ELSE IF L.site = "release" THEN "released"
    ELSE IF L.site = "loop" /\ L.target[2] \notin DOMAIN L.group.slot_pos THEN "abandoned"
    ELSE "done"

ObserveStart(hh, L, e) ==
    IF hh.obs THEN [hh EXCEPT !.flush = FlushStart(L, e), !.log = <<>>] ELSE hh

ObserveReturn(hh, L) ==
    IF hh.obs
    THEN [hh EXCEPT !.log = @ \o <<RunMark>> \o Applied(L),
                    !.flush.outcome = Outcome(L)]
    ELSE hh

(***************************************************************************)
(* The steps of a decoder thread (read.rs, analyze.rs)                     *)
(***************************************************************************)
lstVars == <<lpc, wres, wcall, werr>>
statusVars == <<scan, sres>>

\* the panic of one thread ends every decoder thread
FetchFailAll(d) ==
    /\ dec[d].pc = "fetch"
    /\ dec' = [x \in Devs |-> [dec[x] EXCEPT !.pc = "dead"]]
    /\ UNCHANGED <<status, chan, min_pixel, lstVars, statusVars, tracker, h>>

\* read.rs, line 34: fetch_events fails, unwrap panics, the thread ends and
\* its SyncSender is dropped
FetchFail(d) ==
    /\ dec[d].pc = "fetch"
    /\ dec' = [dec EXCEPT ![d].pc = "dead"]
    /\ UNCHANGED <<status, chan, min_pixel, lstVars, statusVars, tracker, h>>

\* read.rs, lines 34-75: one event is fetched and handled
Event(d, e) ==
    /\ dec[d].pc = "fetch"
    /\ dec' = [dec EXCEPT ![d] = HandleEvent(@, e)]
    /\ h' = ObserveStart(h, dec[d], e)
    /\ UNCHANGED <<status, chan, min_pixel, lstVars, statusVars, tracker>>

\* read.rs, lines 34-75: the events of one report are fetched and handled;
\* one step, as the handlers before the last one stay within the thread
Report(d, r) ==
    /\ dec[d].pc = "fetch"
    /\ PrefixLocal(dec[d], r)
    /\ dec' = [dec EXCEPT ![d] = HandleAll(@, r)]
    /\ UNCHANGED <<status, chan, min_pixel, lstVars, statusVars, tracker, h>>

\* the thread goes on with the threshold it was started with
LoadMinPixelOnce(d) ==
    /\ dec[d].pc = "load_mp"
    /\ dec' = [dec EXCEPT ![d].mp = InitMinPixel, ![d].pc = "analyze"]
    /\ h' = [h EXCEPT !.stale = @ \ {d}]
    /\ UNCHANGED <<status, chan, min_pixel, lstVars, statusVars, tracker>>

\* read.rs, lines 98, 108, 111: min_pixel.load(Ordering::Acquire)
LoadMinPixel(d) ==
    /\ dec[d].pc = "load_mp"
    /\ dec' = [dec EXCEPT ![d].mp = min_pixel, ![d].pc = "analyze"]
    /\ h' = [h EXCEPT !.stale = @ \ {d}]
    /\ UNCHANGED <<status, chan, min_pixel, lstVars, statusVars, tracker>>

\* analyze.rs, lines 16-27: the status differs, it is stored
AnalyzeChanged(d) ==
    /\ dec[d].pc = "analyze"
    /\ status_differs(status[d], new_status_of(dec[d].group, dec[d].mp))
    /\ status' = [status EXCEPT ![d] = new_status_of(dec[d].group, dec[d].mp)]
    /\ dec' = [dec EXCEPT ![d].pc = "notify"]
    /\ h' = [h EXCEPT !.changes = Min(@ + 1, MaxCount),
                      !.dirty = TRUE]
    /\ UNCHANGED <<chan, min_pixel, lstVars, statusVars, tracker>>

\* analyze.rs, lines 16-30: the status is the same, analyze returns
AnalyzeUnchanged(d) ==
    /\ dec[d].pc = "analyze"
    /\ ~status_differs(status[d], new_status_of(dec[d].group, dec[d].mp))
    /\ dec' = [dec EXCEPT ![d] = AfterAnalyze(@)]
    /\ h' = ObserveReturn(h, dec[d])
    /\ UNCHANGED <<status, chan, min_pixel, lstVars, statusVars, tracker>>

\* analyze.rs, line 28: notice.try_send(()), then analyze returns
TrySend(d) ==
    /\ dec[d].pc = "notify"
    /\ try_send_ready(chan)
    /\ chan' = try_send(chan)
    /\ dec' = [dec EXCEPT ![d] = AfterAnalyze(@)]
    /\ h' = ObserveReturn([h EXCEPT !.published = Min(@ + 1, MaxCount)], dec[d])
    /\ UNCHANGED <<status, min_pixel, lstVars, statusVars, tracker>>

(***************************************************************************)
(* The thread that owns the TouchListener (lib.rs)                         *)
(***************************************************************************)
\* TouchListener::wait is called
WaitCall ==
    /\ lpc = "idle"
    /\ lpc' = "wait"
    /\ UNCHANGED <<status, chan, min_pixel, dec, wres, wcall, werr, statusVars, tracker, h>>

\* wait returns Ok(()): recv took the buffered message
WaitOk ==
    /\ lpc = "wait"
    /\ recv(chan, AnyAlive) = "Ok"
    /\ chan' = chan - 1
    /\ lpc' = "idle" /\ wres' = "Ok" /\ wcall' = "wait" /\ werr' = "none"
    /\ h' = [h EXCEPT !.changes = 0, !.published = 0]
    /\ UNCHANGED <<status, min_pixel, dec, statusVars, tracker>>

\* wait returns Err: recv found the channel empty and disconnected
WaitErr ==
    /\ lpc = "wait"
    /\ recv(chan, AnyAlive) = "Disconnected"
    /\ lpc' = "idle" /\ wres' = wait_err("Disconnected") /\ wcall' = "wait"
    /\ werr' = "Disconnected"
    /\ UNCHANGED <<status, chan, min_pixel, dec, statusVars, tracker, h>>

\* TouchListener::wait_timeout is called
WaitTimeoutCall ==
    /\ lpc = "idle"
    /\ lpc' = "wait_timeout"
    /\ UNCHANGED <<status, chan, min_pixel, dec, wres, wcall, werr, statusVars, tracker, h>>

\* wait_timeout returns Ok(())
WaitTimeoutOk ==
    /\ lpc = "wait_timeout"
    /\ recv_timeout(chan, AnyAlive) = "Ok"
    /\ chan' = chan - 1
    /\ lpc' = "idle" /\ wres' = "Ok" /\ wcall' = "wait_timeout" /\ werr' = "none"
    /\ h' = [h EXCEPT !.changes = 0, !.published = 0]
    /\ UNCHANGED <<status, min_pixel, dec, statusVars, tracker>>

\* wait_timeout returns Err: the channel is empty and disconnected, or the
\* duration has elapsed with the channel empty
WaitTimeoutErr ==
    /\ lpc = "wait_timeout"
    /\ recv_timeout(chan, AnyAlive) \in {"Disconnected", "Timeout"}
    /\ lpc' = "idle" /\ wres' = wait_timeout_err(recv_timeout(chan, AnyAlive))
    /\ wcall' = "wait_timeout" /\ werr' = recv_timeout(chan, AnyAlive)
    /\ h' = [h EXCEPT !.errs = @ \cup {<<recv_timeout(chan, AnyAlive),
                                         wait_timeout_err(recv_timeout(chan, AnyAlive))>>}]
    /\ UNCHANGED <<status, chan, min_pixel, dec, statusVars, tracker>>

\* TouchListener::min_pixel(p): the store of line 137; the calls of analyze
\* that have loaded the threshold already go on with the value they loaded
SetMinPixel(p) ==
    /\ lpc = "idle"
    /\ min_pixel' = p
    /\ h' = [h EXCEPT !.stale = {d \in Devs : dec[d].pc \in {"analyze", "notify"}}]
    /\ UNCHANGED <<status, chan, dec, lstVars, statusVars, tracker>>

(***************************************************************************)
(* Spec: a listener over two devices.  Each device sends whole reports of  *)
(* a single contact without slot events (so the contact's slot is None),   *)
(* and position reports only while a contact is down.                      *)
(***************************************************************************)
Devices == {0, 1}
OneDevice == {0}

h_new ==
    [changes |-> 0, published |-> 0, dirty |-> FALSE, errs |-> {}, runs |-> 0,
     last |-> [op |-> "new", arg |-> 0, before |-> <<>>],
     stale |-> {}, obs |-> FALSE, flush |-> NoFlush, log |-> <<>>]

\* the thread that owns the listener has called nothing yet
ListenerIdle ==
    /\ lpc = "idle" /\ wres = "none" /\ wcall = "none" /\ werr = "none"
    /\ scan = <<>> /\ sres = <<>>

\* TouchListener::new(InitMinPixel) over the devices D, lines 107-133
NewListener(D) ==
    /\ status = [d \in D |-> "None"]
    /\ chan = 0
    /\ min_pixel = InitMinPixel
    /\ dec = [d \in D |-> daemon_new]
    /\ ListenerIdle

Init ==
    /\ NewListener(Devices)
    /\ tracker = TouchPos_new
    /\ h = h_new

Down == <<Ev("TRACKING_ID", 1), SynEvent>>
Up == <<Ev("TRACKING_ID", ReleaseId), SynEvent>>
Moves ==
    {<<Ev("POSITION_X", v), SynEvent>> : v \in {0, FarCoord}}
        \cup {<<Ev("POSITION_Y", 0), SynEvent>>}

\* device 0 is a surface whose contact moves; device 1 only reports taps
SpecReports(d, L) ==
    {Down, Up} \cup (IF d = 0 /\ DOMAIN L.group.id_slot /= {} THEN Moves ELSE {})

Next ==
    \/ \E d \in Devs : FetchFail(d)
    \/ \E d \in Devs : LoadMinPixel(d)
    \/ \E d \in Devs : AnalyzeChanged(d)
    \/ \E d \in Devs : AnalyzeUnchanged(d)
    \/ \E d \in Devs : TrySend(d)
    \/ \E d \in Devs : \E r \in SpecReports(d, dec[d]) : Report(d, r)
    \/ WaitCall \/ WaitOk \/ WaitErr
    \/ WaitTimeoutCall \/ WaitTimeoutOk \/ WaitTimeoutErr

Spec == Init /\ [][Next]_vars

\* A running decoder thread that has stored a status goes on to its try_send,
\* which never blocks (analyze.rs:28), and a recv() blocked on a channel that
\* holds a message returns (lib.rs:147).
FairSpec ==
    /\ Spec
    /\ WF_vars(WaitOk)
    /\ \A d \in Devices : WF_vars(TrySend(d))


(***************************************************************************)
(* SpecThreshold: a listener over two surfaces whose contacts move, whose  *)
(* thread calls min_pixel(p).                                              *)
(***************************************************************************)
\* the thresholds min_pixel(p) is called with
Thresholds == {InitMinPixel, HighThreshold}

\* a report of a moving contact carries both coordinates
FullMoves == {<<Ev("POSITION_X", v), Ev("POSITION_Y", 0), SynEvent>> : v \in {0, FarCoord}}

ThresholdReports(L) ==
    {Down, Up} \cup (IF DOMAIN L.group.id_slot /= {} THEN FullMoves ELSE {})

NextThreshold ==
    \/ \E p \in Thresholds : SetMinPixel(p)
    \/ \E d \in Devs : LoadMinPixel(d)
    \/ \E d \in Devs : AnalyzeChanged(d)
    \/ \E d \in Devs : AnalyzeUnchanged(d)
    \/ \E d \in Devs : TrySend(d)
    \/ \E d \in Devs : \E r \in ThresholdReports(dec[d]) : Report(d, r)

SpecThreshold == Init /\ [][NextThreshold]_vars

(***************************************************************************)
(* SpecStatus: the same listener, whose thread calls status().  Each of    *)
(* the three any() passes loads the cells one at a time, in the order the  *)
(* HashMap happens to yield them, and stops at the first match.            *)
(***************************************************************************)
\* lib.rs, lines 168-181: the pass for Click was meant to come first
StatusOrderSwapped == <<"Click", "Slide", "None">>

\* lib.rs, lines 168-181: the third pass repeats the comparison of the second
StatusOrderRepeated == <<"Slide", "Click", "Click">>

\* lib.rs, lines 168-181: the value each pass looks for, in the order of the
\* returned tuple
StatusOrder == <<"Slide", "Click", "None">>

\* TouchListener::status is called
StatusCall ==
    /\ lpc = "idle"
    /\ lpc' = "status"
    /\ scan' = [phase |-> 1, todo |-> Devs, res |-> <<>>]
    /\ h' = [h EXCEPT !.dirty = FALSE]
    /\ UNCHANGED <<status, chan, min_pixel, dec, wres, wcall, werr, sres, tracker>>

\* lines 171, 175, 179: one s.load(Ordering::Acquire) of a pass; the pass
\* ends on a match or when no cell is left, and the third pass returns
StatusLoad(d) ==
    /\ lpc = "status"
    /\ d \in scan.todo
    /\ LET hit == status[d] = StatusOrder[scan.phase]
           res1 == Append(scan.res, hit)
       IN  IF ~hit /\ scan.todo /= {d}
           THEN /\ scan' = [scan EXCEPT !.todo = @ \ {d}]
                /\ UNCHANGED <<lpc, sres>>
           ELSE IF scan.phase < Len(StatusOrder)
           THEN /\ scan' = [phase |-> scan.phase + 1, todo |-> Devs, res |-> res1]
                /\ UNCHANGED <<lpc, sres>>
           ELSE /\ scan' = <<>>
                /\ lpc' = "idle"
                /\ sres' = res1
    /\ UNCHANGED <<status, chan, min_pixel, dec, wres, wcall, werr, tracker, h>>

NextStatus ==
    \/ \E d \in Devs : FetchFail(d)
    \/ \E d \in Devs : LoadMinPixel(d)
    \/ \E d \in Devs : AnalyzeChanged(d)
    \/ \E d \in Devs : AnalyzeUnchanged(d)
    \/ \E d \in Devs : TrySend(d)
    \/ \E d \in Devs : \E r \in SpecReports(d, dec[d]) : Report(d, r)
    \/ StatusCall
    \/ \E d \in Devs : StatusLoad(d)

SpecStatus == Init /\ [][NextStatus]_vars

\* SpecStatusAny: a listener over one device or over two
InitAny ==
    /\ \E D \in {OneDevice, Devices} : NewListener(D)
    /\ tracker = TouchPos_new
    /\ h = h_new

SpecStatusAny == InitAny /\ [][NextStatus]_vars

(***************************************************************************)
(* Specifications of the parts: one TouchPos, one TouchGroup, one call of  *)
(* analyze, one decoder thread.                                            *)
(***************************************************************************)
\* coordinates written to the free-standing TouchPos
MaxPosCoord == 2
\* coordinates and thresholds of the TouchGroups analyze is called on
MaxCoord == 8
MaxThreshold == 11
\* calls of analyze on one TouchGroup
MaxRuns == 2
\* buffered axis events of the decoder thread
MaxCache == 2

\* a listener over one device
InitOne ==
    /\ NewListener(OneDevice)
    /\ tracker = TouchPos_new
    /\ h = h_new

(* SpecPos: writes to one TouchPos, from TouchPos::new() *)
InitPos ==
    /\ NewListener(OneDevice)
    /\ tracker = TouchPos_new
    /\ h = [h_new EXCEPT !.last.before = TouchPos_new]

\* pos.x(v)
WriteX(v) ==
    /\ tracker' = TouchPos_x(tracker, v)
    /\ h' = [h EXCEPT !.last = [op |-> "x", arg |-> v, before |-> tracker]]
    /\ UNCHANGED <<status, chan, min_pixel, dec, lstVars, statusVars>>

\* pos.y(v)
WriteY(v) ==
    /\ tracker' = TouchPos_y(tracker, v)
    /\ h' = [h EXCEPT !.last = [op |-> "y", arg |-> v, before |-> tracker]]
    /\ UNCHANGED <<status, chan, min_pixel, dec, lstVars, statusVars>>

NextPos ==
    \/ \E v \in 0..MaxPosCoord : WriteX(v)
    \/ \E v \in 0..MaxPosCoord : WriteY(v)

SpecPos == InitPos /\ [][NextPos]_vars

(* SpecGroup: ids bound and released in one TouchGroup, from TouchGroup::new() *)
GroupIds == {2, 5, 7}
GroupSlots == {NoneOpt, Some(0), Some(1)}

InitGroup ==
    /\ NewListener(OneDevice)
    /\ tracker = TouchPos_new
    /\ h = [h_new EXCEPT !.last.before = TouchGroup_new]

\* read.rs, lines 102-105
GroupBind(d, id, slot) ==
    /\ dec' = [dec EXCEPT ![d].group = bind(@, id, slot)]
    /\ h' = [h EXCEPT !.last = [op |-> "bind", arg |-> id, before |-> dec[d].group]]
    /\ UNCHANGED <<status, chan, min_pixel, lstVars, statusVars, tracker>>

\* read.rs, line 96: group.remove_id()
GroupRemove(d) ==
    /\ dec' = [dec EXCEPT ![d].group = remove_id(@)]
    /\ h' = [h EXCEPT !.last = [op |-> "remove_id", arg |-> ReleaseId,
                                before |-> dec[d].group]]
    /\ UNCHANGED <<status, chan, min_pixel, lstVars, statusVars, tracker>>

NextGroup ==
    \/ \E d \in Devs : \E id \in GroupIds : \E slot \in GroupSlots : GroupBind(d, id, slot)
    \/ \E d \in Devs : GroupRemove(d)

SpecGroup == InitGroup /\ [][NextGroup]_vars

(* SpecClassify: analyze called on a given TouchGroup, threshold and cell *)
CoordOpts(S) == {NoneOpt} \cup {Some(v) : v \in S}

PosSamples ==
    {[cur_pos |-> <<cx, cy>>, prev_pos |-> <<px, py>>] :
        cx \in CoordOpts(0..MaxCoord), cy \in CoordOpts(0..MaxCoord),
        px \in CoordOpts({0, MaxCoord}), py \in CoordOpts({0, MaxCoord})}

\* the TouchPos of a second slot: a fresh one, one that moved by MaxCoord
OtherSamples ==
    {TouchPos_new,
     [cur_pos |-> <<Some(MaxCoord), Some(0)>>, prev_pos |-> <<Some(0), Some(0)>>]}

Snapshots ==
    {TouchGroup_new}
    \cup {[id_slot |-> (1 :> Some(0)), slot_pos |-> (Some(0) :> p)] : p \in PosSamples}
    \cup {[id_slot |-> (1 :> Some(0)) @@ (2 :> Some(1)),
           slot_pos |-> (Some(0) :> p) @@ (Some(1) :> q)] :
              p \in PosSamples, q \in OtherSamples}

InitClassify ==
    /\ status \in [OneDevice -> TouchStatus]
    /\ chan = 0
    /\ min_pixel \in 0..MaxThreshold
    /\ dec \in [OneDevice -> {[daemon_new EXCEPT !.group = g] : g \in Snapshots}]
    /\ ListenerIdle
    /\ tracker = TouchPos_new
    /\ h = [h_new EXCEPT !.last.before = status]

\* analyze(&group, status, notice, min_pixel.load(..)) is called, after which
\* the caller returns (as at read.rs, lines 98-99)
AnalyzeCall(d) ==
    /\ dec[d].pc = "fetch"
    /\ h.runs < MaxRuns
    /\ dec' = [dec EXCEPT ![d].pc = "load_mp", ![d].site = "release"]
    /\ h' = [h EXCEPT !.runs = @ + 1]
    /\ UNCHANGED <<status, chan, min_pixel, lstVars, statusVars, tracker>>

NextClassify ==
    \/ \E d \in Devs : AnalyzeCall(d)
    \/ \E d \in Devs : LoadMinPixel(d)
    \/ \E d \in Devs : AnalyzeChanged(d)
    \/ \E d \in Devs : AnalyzeUnchanged(d)
    \/ \E d \in Devs : TrySend(d)

SpecClassify == InitClassify /\ [][NextClassify]_vars

(* SpecDecoder: one decoder thread fed event by event, one contact id *)
AxisEvents ==
    {Ev("POSITION_X", v) : v \in {0, FarCoord}} \cup {Ev("POSITION_Y", 0)}

DecoderEvents ==
    {Ev("TRACKING_ID", v) : v \in {ReleaseId, 1}}
    \cup {Ev("SLOT", 0), SynEvent, Ev("OTHER", 0)}
    \cup AxisEvents

\* the events fetch_events may yield: the buffer of axis events is bounded
Fetchable(E, L, max) ==
    {e \in E : e.kind \in {"POSITION_X", "POSITION_Y"} => Len(L.cache) < max}

\* a listener over one device, its flushes recorded
InitDecoder ==
    /\ NewListener(OneDevice)
    /\ tracker = TouchPos_new
    /\ h = [h_new EXCEPT !.obs = TRUE]

NextDecoder ==
    \/ \E p \in Thresholds : SetMinPixel(p)
    \/ \E d \in Devs : FetchFail(d)
    \/ \E d \in Devs : LoadMinPixel(d)
    \/ \E d \in Devs : AnalyzeChanged(d)
    \/ \E d \in Devs : AnalyzeUnchanged(d)
    \/ \E d \in Devs : TrySend(d)
    \/ \E d \in Devs : \E e \in Fetchable(DecoderEvents, dec[d], MaxCache) : Event(d, e)

SpecDecoder == InitDecoder /\ [][NextDecoder]_vars

(* SpecContacts: one decoder thread fed event by event, two contact ids *)
MaxCacheContacts == 1

ContactEvents == DecoderEvents \cup {Ev("TRACKING_ID", 2)}

NextContacts ==
    \/ \E d \in Devs : FetchFail(d)
    \/ \E d \in Devs : LoadMinPixel(d)
    \/ \E d \in Devs : AnalyzeChanged(d)
    \/ \E d \in Devs : AnalyzeUnchanged(d)
    \/ \E d \in Devs : TrySend(d)
    \/ \E d \in Devs :
          \E e \in Fetchable(ContactEvents, dec[d], MaxCacheContacts) : Event(d, e)

SpecContacts == InitOne /\ [][NextContacts]_vars

(***************************************************************************)
(* Claims checked under Spec                                               *)
(***************************************************************************)
\* C1: the error wait_timeout returns when the duration elapses differs from
\* the error it returns when the channel is disconnected: two calls that
\* failed for different causes returned different errors.
C1_TimeoutDistinct ==
    \A a \in h.errs : \A b \in h.errs : a[1] /= b[1] => a[2] /= b[2]

\* once a status change has been stored and every try_send that follows a
\* store has been made, with no successful receive since the change, the
\* channel holds a notification and a receive returns Ok
C2_Published ==
    (h.changes > 0 /\ \A d \in Devs : dec[d].pc /= "notify")
        => (chan >= 1 /\ recv(chan, AnyAlive) = "Ok")

\* C2: a status change stored by a decoder thread is followed by a buffered
\* notification once the try_send after the store has run, and a caller
\* blocked in wait() while such a change is unreceived returns Ok.
C2_Wakeup ==
    /\ []C2_Published
    /\ (lpc = "wait" /\ h.changes > 0)
          ~> (lpc = "idle" /\ wcall = "wait" /\ wres = "Ok")

\* a waiter is blocked in wait() while a change made since the last receive
\* has been published
C2_Witness ==
    /\ lpc = "wait" /\ h.changes > 0 /\ chan = 1
    /\ \A d \in Devs : dec[d].pc /= "notify"

\* C3: N >= 1 publications (store, then try_send) since the last receive
\* leave at least 1 and at most N notifications in the channel, and a thread
\* that is about to try_send can always take that step.
C3_Coalescing ==
    /\ h.published >= 1 => (1 <= chan /\ chan <= h.published)
    /\ \A d \in Devs : dec[d].pc = "notify" => ENABLED TrySend(d)

\* two publications have been coalesced into one buffered notification, and
\* a third try_send is about to find the channel full
C3_Witness ==
    /\ h.published >= 2 /\ chan = 1
    /\ \E d \in Devs : dec[d].pc = "notify"

\* C5: wait() returns Ok only by taking a notification, stays blocked while
\* the channel is empty and a decoder thread is alive, and returns an error
\* only when every decoder thread has ended and no notification is pending.
C5_Wait ==
    /\ (wcall = "wait" /\ wres \notin {"Ok", "none"})
          => (~AnyAlive /\ chan = 0)
    /\ (lpc = "wait" /\ chan = 0 /\ AnyAlive) => ~ENABLED (WaitOk \/ WaitErr)
    /\ (lpc = "wait" /\ chan > 0) => ENABLED WaitOk

\* wait() has failed: every thread had ended with the channel empty
C5_Witness ==
    /\ wcall = "wait" /\ wres = wait_err("Disconnected") /\ lpc = "idle"
    /\ \E d \in Devs : status[d] /= "None"

\* a thread that can take its next step: a dead thread takes none
CanStep(d) ==
    \/ dec[d].pc = "fetch" /\ ENABLED Report(d, Down)
    \/ dec[d].pc = "load_mp" /\ ENABLED LoadMinPixel(d)
    \/ dec[d].pc = "analyze" /\ ENABLED (AnalyzeChanged(d) \/ AnalyzeUnchanged(d))
    \/ dec[d].pc = "notify" /\ ENABLED TrySend(d)

\* C17: a thread whose fetch has failed stays dead and its status cell never
\* changes again; the step in which it fails changes nothing of the other
\* threads, of the cells and of the channel; every other thread can always
\* take its next step; and wait() does not fail, and returns Ok when a
\* notification is buffered, while a thread is alive.
C17_Isolated ==
    /\ [][\A d \in Devs :
            dec[d].pc = "dead" => (dec'[d].pc = "dead" /\ status'[d] = status[d])]_vars
    /\ [][\A d \in Devs :
            (dec[d].pc /= "dead" /\ dec'[d].pc = "dead") =>
                /\ \A x \in Devs \ {d} : dec'[x] = dec[x]
                /\ status' = status /\ chan' = chan]_vars
    /\ [](\A d \in Devs : dec[d].pc /= "dead" => CanStep(d))
    /\ []((lpc = "wait" /\ AnyAlive) =>
            (~ENABLED WaitErr /\ (chan > 0 => ENABLED WaitOk)))

\* device 0 has failed with its cell at Slide; device 1 has stored a change
\* and is about to notify; the caller is blocked in wait() on an empty
\* channel
C17_Witness ==
    /\ dec[0].pc = "dead" /\ status[0] = "Slide"
    /\ dec[1].pc = "notify"
    /\ lpc = "wait" /\ chan = 0


(***************************************************************************)
(* Claims checked under SpecStatus                                         *)
(***************************************************************************)
\* C6: a status() call during which no decoder stored a status returns
\* (some cell is Slide, some cell is Click, some cell is None).
C6_Status ==
    (lpc = "idle" /\ sres /= <<>> /\ ~h.dirty)
        => sres = << \E d \in Devs : status[d] = "Slide",
                     \E d \in Devs : status[d] = "Click",
                     \E d \in Devs : status[d] = "None" >>

\* one device is Slide, the other None, and an undisturbed call has returned
\* (true, false, true)
C6_Witness ==
    /\ lpc = "idle" /\ ~h.dirty /\ sres = <<TRUE, FALSE, TRUE>>
    /\ status[0] = "Slide" /\ status[1] = "None"


(***************************************************************************)
(* Claims checked under SpecStatusAny                                      *)
(***************************************************************************)
\* how many components of a returned triple are true
TrueCount(t) == Cardinality({i \in 1..Len(t) : t[i]})

\* C18, as stated: every call of status() returns a triple with at least
\* one true component, and with exactly one true component when the
\* listener has one device.
C18_SomeTrue ==
    (lpc = "idle" /\ sres /= <<>>) =>
        /\ TrueCount(sres) >= 1
        /\ Cardinality(Devs) = 1 => TrueCount(sres) = 1

\* C18, amended: a call of status() during which no decoder thread stored a
\* status returns a triple with at least one true component, and with
\* exactly one when the listener has one device.
C18_SomeTrueQuiet ==
    (lpc = "idle" /\ sres /= <<>> /\ ~h.dirty) =>
        /\ TrueCount(sres) >= 1
        /\ Cardinality(Devs) = 1 => TrueCount(sres) = 1

\* an undisturbed call on a listener with one device, whose cell is Slide,
\* has returned (true, false, false)
C18_Witness ==
    /\ Devs = OneDevice
    /\ lpc = "idle" /\ ~h.dirty /\ sres = <<TRUE, FALSE, FALSE>>
    /\ status[0] = "Slide"

(***************************************************************************)
(* Claims checked under SpecClassify                                       *)
(***************************************************************************)
\* the status cell before the first call of analyze
Cell0 == h.last.before[0]

\* calls of analyze have returned, at least n of them
Ran(n) == h.runs > n \/ (h.runs = n /\ dec[0].pc = "fetch")

\* C4: analyze stores and notifies only on a change: from an empty channel,
\* once the first call has returned the cell holds the computed status and
\* exactly one notification was sent if that status differs from the cell's
\* first value (none if not), and a second call changes neither.
C4_OnlyOnChange ==
    Ran(1) =>
        /\ status[0] = new_status_of(dec[0].group, min_pixel)
        /\ h.published = (IF Cell0 /= status[0] THEN 1 ELSE 0)
        /\ chan = h.published

\* analyze has run twice on a group whose status differs from the cell's
\* first value: one notification
C4_Witness ==
    /\ h.runs = 2 /\ dec[0].pc = "fetch"
    /\ Cell0 /= status[0] /\ chan = 1 /\ h.published = 1

\* C7, as the claim states it: a slot slides when cur_pos and prev_pos are
\* fully populated and their distance, rounded to the nearest integer, is at
\* least the threshold t, i.e. the distance is at least t - 1/2
Populated(p) ==
    /\ p.cur_pos[1] /= NoneOpt /\ p.cur_pos[2] /= NoneOpt
    /\ p.prev_pos[1] /= NoneOpt /\ p.prev_pos[2] /= NoneOpt

DistSq(p) ==
    (p.cur_pos[1][1] - p.prev_pos[1][1]) * (p.cur_pos[1][1] - p.prev_pos[1][1])
        + (p.cur_pos[2][1] - p.prev_pos[2][1]) * (p.cur_pos[2][1] - p.prev_pos[2][1])

Slides(p, t) == Populated(p) /\ (t = 0 \/ 4 * DistSq(p) >= (2 * t - 1) * (2 * t - 1))

Claimed(g, t) ==
    IF \E s \in DOMAIN g.slot_pos : Slides(g.slot_pos[s], t) THEN "Slide"
    ELSE IF DOMAIN g.slot_pos = {} THEN "None"
    ELSE "Click"

OneSlot(prev, cur) ==
    [id_slot |-> (1 :> Some(0)),
     slot_pos |-> (Some(0) :> [cur_pos |-> <<Some(cur[1]), Some(cur[2])>>,
                               prev_pos |-> <<Some(prev[1]), Some(prev[2])>>])]

C8_RemoveId ==
    h.last.op = "remove_id" =>
        LET b == h.last.before
            g == dec[0].group
        IN  IF DOMAIN b.id_slot = {} THEN g = b
            ELSE \E m \in DOMAIN b.id_slot :
                    /\ \A i \in DOMAIN b.id_slot : i <= m
                    /\ DOMAIN g.id_slot = DOMAIN b.id_slot \ {m}
                    /\ Cardinality(DOMAIN g.id_slot) = Cardinality(DOMAIN b.id_slot) - 1
                    /\ \A i \in DOMAIN g.id_slot : g.id_slot[i] = b.id_slot[i]
                    /\ DOMAIN g.slot_pos = DOMAIN b.slot_pos \ {b.id_slot[m]}

\* ids 2 and 5 were bound to two slots; remove_id removed 5 and its slot
C8_Witness ==
    /\ h.last.op = "remove_id"
    /\ DOMAIN h.last.before.id_slot = {2, 5}
    /\ h.last.before.id_slot[5] \in DOMAIN h.last.before.slot_pos
    /\ DOMAIN dec[0].group.id_slot = {2}
    /\ DOMAIN dec[0].group.slot_pos = {h.last.before.id_slot[2]}

(***************************************************************************)
(* Claims checked under SpecPos                                            *)
(***************************************************************************)
\* C9: after every write, prev_pos is the whole cur_pos of before the write,
\* and cur_pos differs from it only in the written axis.
C9_Shift ==
    h.last.op \in {"x", "y"} =>
        /\ tracker.prev_pos = h.last.before.cur_pos
        /\ h.last.op = "x" =>
              tracker.cur_pos = <<Some(h.last.arg), h.last.before.cur_pos[2]>>
        /\ h.last.op = "y" =>
              tracker.cur_pos = <<h.last.before.cur_pos[1], Some(h.last.arg)>>

\* a y write on a fully populated tracker whose prev_pos held another sample
C9_Witness ==
    /\ h.last.op = "y" /\ h.last.arg = 2
    /\ h.last.before = [cur_pos |-> <<Some(1), Some(0)>>, prev_pos |-> <<Some(0), Some(0)>>]
    /\ tracker = [cur_pos |-> <<Some(1), Some(2)>>, prev_pos |-> <<Some(1), Some(0)>>]

\* the absolute difference of cur_pos and prev_pos along x and along y
AxisDiff(p, k) ==
    IF p.cur_pos[k][1] >= p.prev_pos[k][1]
    THEN p.cur_pos[k][1] - p.prev_pos[k][1]
    ELSE p.prev_pos[k][1] - p.cur_pos[k][1]

C10_ReleasedNone ==
    \A d \in Devs :
        (/\ DOMAIN dec[d].group.id_slot = {}
         /\ ~(dec[d].site = "release" /\ dec[d].pc \in {"load_mp", "analyze"}))
            => status[d] = "None"

\* a release flush has removed the last id and stored None over another
\* status
C10_Witness ==
    \E d \in Devs :
        /\ dec[d].site = "release" /\ dec[d].pc = "notify"
        /\ DOMAIN dec[d].group.id_slot = {}
        /\ status[d] = "None"

\* C16: every slot that has a TouchPos is the slot of at least one bound
\* tracking id, in every state and so after every completed flush.
C16_SlotsReachable ==
    \A d \in Devs :
        \A s \in DOMAIN dec[d].group.slot_pos :
            \E i \in DOMAIN dec[d].group.id_slot : dec[d].group.id_slot[i] = s

\* a release flush has removed id 2 and its slot; id 1 is left on the other
\* slot, which has its TouchPos
C16_Witness ==
    /\ dec[0].site = "release" /\ dec[0].pc = "load_mp"
    /\ DOMAIN dec[0].group.id_slot = {1}
    /\ dec[0].group.id_slot[1] = Some(0)
    /\ DOMAIN dec[0].group.slot_pos = {Some(0)}

\* C19: every bound tracking id maps to a slot that has a TouchPos, so no
\* id is bound iff no slot is tracked, and a stored None means no id is
\* bound.
C19_IdsHavePos ==
    \A d \in Devs :
        /\ \A i \in DOMAIN dec[d].group.id_slot :
              dec[d].group.id_slot[i] \in DOMAIN dec[d].group.slot_pos
        /\ (DOMAIN dec[d].group.id_slot = {}) = (DOMAIN dec[d].group.slot_pos = {})
        /\ (dec[d].pc = "notify" /\ status[d] = "None")
              => DOMAIN dec[d].group.id_slot = {}

(***************************************************************************)
(* Claims checked under SpecDecoder                                        *)
(***************************************************************************)
\* the handler of a synchronization event returns in this step
SynDone(d) ==
    /\ dec[d].ev.kind = "SYN"
    /\ dec[d].pc \in {"analyze", "notify"}
    /\ dec'[d].pc = "fetch"

\* C11, as stated: when a synchronization event has been fully processed,
\* the status cell equals the classification of the TouchGroup as it then
\* stands under the current threshold.
C11_CurrentTruth ==
    [][\A d \in Devs :
          SynDone(d) => status'[d] = new_status_of(dec'[d].group, min_pixel')]_vars

\* the last entry of the log, if it is a write
LastWrite(log) ==
    IF log /= <<>> /\ log[Len(log)] /= RunMark THEN <<log[Len(log)]>> ELSE <<>>

\* C11, amended: when a synchronization event has been fully processed by a
\* flush that called analyze, the status cell equals the classification,
\* under the threshold the flush's last call of analyze loaded, of the
\* TouchGroup as that call saw it: the TouchGroup as it then stands if the
\* flush applied no write after that call, and the TouchGroup before the
\* flush's last write otherwise.
C11_LastRun ==
    [][\A d \in Devs :
          SynDone(d) =>
            /\ status'[d] = Claimed(dec[d].group, dec[d].mp)
            /\ dec'[d].group =
                  IF LastWrite(h'.log) = <<>> THEN dec[d].group
                  ELSE [dec[d].group EXCEPT !.slot_pos[dec[d].target[2]] =
                                               ApplyAxis(@, LastWrite(h'.log)[1])]]_vars

\* a synchronization event has been processed, its flush ended with a write
\* that makes the contact slide, and the status cell is still Click
C11_Witness ==
    /\ dec[0].pc = "fetch" /\ h.flush.ev = "SYN" /\ h.flush.outcome = "done"
    /\ LastWrite(h.log) /= <<>>
    /\ min_pixel = InitMinPixel
    /\ status[0] = "Click"
    /\ Claimed(dec[0].group, min_pixel) = "Slide"

\* C13: when a flush has been abandoned because the target slot has no
\* TouchPos, the buffer of axis events is empty.
C13_AbandonDiscards ==
    \A d \in Devs :
        (dec[d].pc = "fetch" /\ h.flush.outcome = "abandoned") => dec[d].cache = <<>>

\* C14: when a release flush has returned, the buffer of axis events is
\* empty: the events buffered with the release are discarded.
C14_ReleaseDiscards ==
    \A d \in Devs :
        (dec[d].pc = "fetch" /\ h.flush.outcome = "released") => dec[d].cache = <<>>

\* what a flush over the buffer c logs when it classifies once and then once
\* more before each write: analyze, analyze, c[1], analyze, c[2], ...
Expected(c) ==
    [i \in 1..(2 * Len(c) + 1) |->
        IF i = 1 \/ i % 2 = 0 THEN RunMark ELSE c[(i - 1) \div 2]]

\* C15: a flush that is not a release and whose target slot has a TouchPos
\* calls analyze once, then once more before each buffered write, and
\* applies the writes in the order of the buffer: with k buffered events it
\* has logged analyze, analyze, write 1, ..., analyze, write k when it ends,
\* and a prefix of that while it runs.
C15_ClassifyThenApply ==
    (h.flush.outcome \in {"running", "done"} /\ ~h.flush.release /\ h.flush.tracked) =>
        LET want == Expected(h.flush.cache)
        IN  /\ Len(h.log) <= Len(want)
            /\ h.log = SubSeq(want, 1, Len(h.log))
            /\ h.flush.outcome = "done" => h.log = want

\* a flush over two buffered events has ended: three calls of analyze, two
\* writes
C15_Witness ==
    /\ dec[0].pc = "fetch" /\ h.flush.outcome = "done"
    /\ ~h.flush.release /\ h.flush.tracked
    /\ Len(h.flush.cache) = 2 /\ Len(h.log) = 5
    /\ h.flush.cache[1] /= h.flush.cache[2]

(***************************************************************************)
(* Claims checked under SpecThreshold                                      *)
(***************************************************************************)
\* C12: a call of analyze that loaded the threshold after the last
\* min_pixel(p) returned runs with p, whichever device it belongs to, and
\* what it stores is the classification under p.
C12_FreshThreshold ==
    \A d \in Devs :
        (dec[d].pc \in {"analyze", "notify"} /\ d \notin h.stale) =>
            /\ dec[d].mp = min_pixel
            /\ dec[d].pc = "notify" => status[d] = Claimed(dec[d].group, min_pixel)

\* after min_pixel(HighThreshold), a call of analyze of each device has
\* loaded HighThreshold for a move that slides under InitMinPixel and does
\* not under HighThreshold
C12_Witness ==
    /\ min_pixel = HighThreshold
    /\ \A d \in Devs :
          /\ dec[d].pc = "analyze" /\ d \notin h.stale
          /\ dec[d].mp = HighThreshold
          /\ Claimed(dec[d].group, InitMinPixel) = "Slide"
          /\ Claimed(dec[d].group, HighThreshold) = "Click"

=============================================================================
